---- MODULE Spec2Model ----
(***************************************************************************)
(* A model of apps/shared/avifjpeg.c: the decode pipeline avifJPEGRead,    *)
(* the encode pipeline avifJPEGWrite, the alpha-stripping helper           *)
(* avifRGBAToRGB and the fatal-error trampoline my_error_exit.             *)
(*                                                                         *)
(* The JPEG codec, the ICC marker reader/writer and the image library are  *)
(* collaborators: each of their calls is a step of the pipeline whose      *)
(* outcome (success, rejection, fatal error) is chosen by the environment. *)
(* A build either defines JCS_ALPHA_EXTENSIONS or does not (nativeAlpha).  *)
(***************************************************************************)
EXTENDS Integers, Sequences, FiniteSets, TLC

\* ------------------------------------------------------------ bounds
\* Largest image width and height explored (0 .. MaxDim).
MaxDim == 2
\* Bytes of profile data one APP2 marker carries (65519 in iccjpeg.c),
\* scaled down so that a three-byte profile needs more than one marker.
MAX_DATA_BYTES_IN_MARKER == 2

\* ------------------------------------------------------------ values
Dims == 0..MaxDim
AVIF_RGB_FORMAT_RGB == "RGB"
AVIF_RGB_FORMAT_RGBA == "RGBA"
JCS_RGB == "JCS_RGB"
JCS_EXT_RGBX == "JCS_EXT_RGBX"
\* A byte of a block that has been allocated and not written. Its value is
\* whatever the heap held: any of 0..255, different from run to run and
\* from byte to byte, and nothing in the program determines it. The model
\* keeps such a byte as Indeterminate, apart from every byte value, until
\* the program writes it; what is computed from an indeterminate byte is
\* indeterminate as well, and two indeterminate bytes are not known to be
\* equal.
Indeterminate == -1
Determined(bytes) == \A k \in DOMAIN bytes : bytes[k] # Indeterminate
IccSamples == {<<>>, <<1, 2, 3>>}
Resources == {"file", "session", "rgb", "rgbPremultiplied", "icc"}

Clip(x) == IF x < 0 THEN 0 ELSE IF x > 255 THEN 255 ELSE x

\* ------------------------------------------------- image library (libavif)
\* Bytes per pixel of an 8-bit interleaved buffer.
avifRGBImagePixelSize(r) == IF r.format = AVIF_RGB_FORMAT_RGBA THEN 4 ELSE 3

\* memset(&rgb, 0, sizeof(avifRGBImage))
ZeroRGBImage ==
  [width |-> 0, height |-> 0, depth |-> 0, format |-> AVIF_RGB_FORMAT_RGB,
   alphaPremultiplied |-> FALSE, chromaUpsampling |-> "automatic",
   rowBytes |-> 0, allocated |-> FALSE, pixels |-> <<>>]

avifRGBImageSetDefaults(image) ==
  [width |-> image.width, height |-> image.height, depth |-> image.depth,
   format |-> AVIF_RGB_FORMAT_RGBA, alphaPremultiplied |-> FALSE,
   chromaUpsampling |-> "automatic",
   rowBytes |-> 0, allocated |-> FALSE, pixels |-> <<>>]

\* rowBytes = width * pixel size; capacity = rowBytes * height; the block
\* is not initialised.
avifRGBImageAllocatePixels(r) ==
  LET rb == r.width * avifRGBImagePixelSize(r)
  IN [r EXCEPT !.rowBytes = rb, !.allocated = TRUE,
               !.pixels = [k \in 1..(rb * r.height) |-> Indeterminate]]

\* Frees the block if there is one and clears the pointer.
avifRGBImageFreePixels(r) ==
  [r EXCEPT !.allocated = FALSE, !.pixels = <<>>, !.rowBytes = 0]

\* 1 when avifRGBImageFreePixels(r) hands a block back to the heap.
FreesBlock(r) == IF r.allocated THEN 1 ELSE 0

\* Colour conversion of one sample (BT.601 full range, integer arithmetic).
YUVToR(y, u, v) == Clip(y + ((1402 * (v - 128)) \div 1000))
YUVToG(y, u, v) == Clip(y - ((344 * (u - 128)) \div 1000) - ((714 * (v - 128)) \div 1000))
YUVToB(y, u, v) == Clip(y + ((1772 * (u - 128)) \div 1000))
RGBToY(r, g, b) == Clip((299 * r + 587 * g + 114 * b) \div 1000)
RGBToU(r, g, b) == Clip(128 + ((1000 * (b - RGBToY(r, g, b))) \div 1772))
RGBToV(r, g, b) == Clip(128 + ((1000 * (r - RGBToY(r, g, b))) \div 1402))

\* One colour sample scaled by alpha, rounded: floor(c * a / 255 + 0.5).
PremultiplySample(c, a) == (2 * c * a + 255) \div 510

\* ------------------------------------------------- ICC markers (iccjpeg.c)
RECURSIVE Chunks(_)
Chunks(bytes) ==
  IF Len(bytes) = 0 THEN <<>>
  ELSE IF Len(bytes) <= MAX_DATA_BYTES_IN_MARKER THEN <<bytes>>
  ELSE <<SubSeq(bytes, 1, MAX_DATA_BYTES_IN_MARKER)>>
       \o Chunks(SubSeq(bytes, MAX_DATA_BYTES_IN_MARKER + 1, Len(bytes)))

\* write_icc_profile: the profile cut into numbered APP2 markers.
write_icc_profile(bytes) ==
  LET c == Chunks(bytes)
  IN [k \in 1..Len(c) |-> [seq |-> k, num |-> Len(c), data |-> c[k]]]

RECURSIVE Concat(_)
Concat(markers) ==
  IF Len(markers) = 0 THEN <<>> ELSE Head(markers).data \o Concat(Tail(markers))

\* read_icc_profile: TRUE and the reassembled bytes when the saved markers
\* form a complete, non-empty profile.
read_icc_profile_found(markers) ==
  /\ Len(markers) > 0
  /\ \A k \in 1..Len(markers) : markers[k].seq = k /\ markers[k].num = Len(markers)
  /\ Len(Concat(markers)) > 0
read_icc_profile_data(markers) == Concat(markers)

\* ------------------------------------------------------------ files
NoEncoded == [valid |-> FALSE, width |-> 0, height |-> 0, icc |-> <<>>]
NoFile ==
  [exists |-> FALSE, hasHeader |-> FALSE, width |-> 0, height |-> 0,
   markers |-> <<>>, rows |-> <<>>, encoded |-> NoEncoded]
\* fopen(path, "wb") leaves an empty file.
EmptyFile == [NoFile EXCEPT !.exists = TRUE]
JPEGFile(w, h, icc, rows) ==
  [exists |-> TRUE, hasHeader |-> TRUE, width |-> w, height |-> h,
   markers |-> write_icc_profile(icc), rows |-> rows, encoded |-> NoEncoded]
InitialFiles ==
  { NoFile,
    JPEGFile(1, 2, <<>>, << <<10, 20, 30>>, <<40, 50, 60>> >>),
    JPEGFile(2, 1, <<9, 8, 7>>, << <<200, 100, 50, 25, 75, 125>> >>) }

\* ------------------------------------------------------------ images
\* The planes of a w x h Planar Image, one <<Y, U, V, A>> per pixel, row by
\* row: a gradient with a checkerboard alpha (opaque / half transparent).
PlanePattern(w, h) ==
  [k \in 1..(w * h) |->
     LET i == (k - 1) % w
         j == (k - 1) \div w
     IN <<Clip(60 + 50 * i + 30 * j), 100 + 10 * j, 160 - 20 * i,
          IF (i + j) % 2 = 0 THEN 128 ELSE 255>>]

Images ==
  { [width |-> w, height |-> h, depth |-> 8, yuvFormat |-> "YUV444",
     alphaPremultiplied |-> ap, icc |-> icc, planes |-> PlanePattern(w, h)] :
      w \in Dims, h \in Dims, ap \in BOOLEAN, icc \in IccSamples }

NoArgs == [requestedFormat |-> "YUV444", requestedDepth |-> 0,
           jpegQuality |-> 0, chromaUpsampling |-> "automatic"]
\* The requests a caller makes of avifJPEGRead and of avifJPEGWrite.
ReadRequests ==
  { [NoArgs EXCEPT !.requestedFormat = "YUV444", !.requestedDepth = 0],
    [NoArgs EXCEPT !.requestedFormat = "YUV420", !.requestedDepth = 10] }
WriteRequests ==
  { [NoArgs EXCEPT !.jpegQuality = 90, !.chromaUpsampling = "automatic"],
    [NoArgs EXCEPT !.jpegQuality = 100, !.chromaUpsampling = "nearest"] }
NoSession ==
  [state |-> "none", image_width |-> 0, image_height |-> 0,
   output_width |-> 0, output_height |-> 0, output_components |-> 0,
   output_scanline |-> 0, out_color_space |-> "none",
   input_components |-> 0, in_color_space |-> "none", next_scanline |-> 0,
   markers |-> <<>>]
NoIccData == [allocated |-> FALSE, bytes |-> <<>>]
NoImage ==
  [width |-> 0, height |-> 0, depth |-> 8, yuvFormat |-> "YUV444",
   alphaPremultiplied |-> FALSE, icc |-> <<>>, planes |-> <<>>]
NoWrite == [valid |-> FALSE, image |-> NoImage, jpegQuality |-> 0,
            chromaUpsampling |-> "automatic", sent |-> <<>>]

\* ------------------------------------------------------------ state
VARIABLES
  nativeAlpha,      \* the build defines JCS_ALPHA_EXTENSIONS
  avif,             \* the caller's Planar Image
  file,             \* the file at the path given to the call
  pc,               \* position in the running call; "idle", "returned", "exited", ...
  op,               \* "read", "write" or "none"
  args,             \* the arguments of the running call
  ret,              \* the local 'ret'
  f,                \* the local FILE *: "NULL" or "open" (closed at cleanup)
  cinfo,            \* the codec session
  rgb,              \* the local avifRGBImage rgb
  rgbPremultiplied, \* the local avifRGBImage rgbPremultiplied (encode)
  iccData,          \* the local iccData (decode)
  row,              \* the local row (decode)
  row_stride,       \* the local row_stride (decode)
  acq,              \* resources acquired by the running call, by kind
  rel,              \* resources released by the running call, by kind
  entry,            \* the Planar Image as it was when the call began
  sent,             \* the rows the codec has read from the bridge (encode)
  trace,            \* the codec calls of the running call, in order, with
                    \* "fatal" after a call that raised a fatal error
  lastWrite,        \* the previous successful encode: inputs and rows sent
  again             \* the running call follows an earlier call

vars == <<nativeAlpha, avif, file, pc, op, args, ret, f, cinfo, rgb,
          rgbPremultiplied, iccData, row, row_stride, acq, rel, entry, sent,
          trace, lastWrite, again>>

locals == <<ret, f, cinfo, rgb, rgbPremultiplied, iccData, row, row_stride>>

NoneHeld == [r \in Resources |-> 0]

Init ==
  /\ nativeAlpha \in BOOLEAN
  /\ avif \in Images
  /\ file \in InitialFiles
  /\ pc = "idle"
  /\ op = "none"
  /\ args = NoArgs
  /\ ret = FALSE
  /\ f = "NULL"
  /\ cinfo = NoSession
  /\ rgb = ZeroRGBImage
  /\ rgbPremultiplied = ZeroRGBImage
  /\ iccData = NoIccData
  /\ row = 0
  /\ row_stride = 0
  /\ acq = NoneHeld
  /\ rel = NoneHeld
  /\ entry = avif
  /\ sent = <<>>
  /\ trace = <<>>
  /\ lastWrite = NoWrite
  /\ again = FALSE

Acquire(r) == acq' = [acq EXCEPT ![r] = @ + 1]

\* The caller makes a call, and may make one more when it has returned (an
\* encode followed by a decode of the file, two encodes of one image, ...).
CanCall == pc = "idle" \/ (pc = "returned" /\ ~again)

\* ============================================================ avifJPEGRead
\* The caller invokes avifJPEGRead on the image it holds or on a newly
\* created empty one; locals are initialised (lines 44-48).
CallRead ==
  /\ CanCall
  /\ args' \in ReadRequests
  /\ op' = "read"
  /\ pc' = "r_fopen"
  /\ ret' = FALSE
  /\ iccData' = NoIccData
  /\ rgb' = ZeroRGBImage
  /\ rgbPremultiplied' = ZeroRGBImage
  /\ f' = "NULL"
  /\ cinfo' = NoSession
  /\ row' = 0
  /\ row_stride' = 0
  /\ acq' = NoneHeld
  /\ rel' = NoneHeld
  /\ avif' \in {avif, NoImage}
  /\ entry' = avif'
  /\ sent' = <<>>
  /\ trace' = <<>>
  /\ again' = (pc = "returned")
  /\ UNCHANGED <<nativeAlpha, file, lastWrite>>

\* An open failure that takes the cleanup path instead of returning.
ReadOpenFailedGoesToCleanup ==
  /\ pc' = "r_cleanup"
  /\ UNCHANGED <<f, acq>>

\* The direct return of line 53: nothing was acquired, nothing is released.
ReadOpenFailed ==
  /\ pc' = "returned"
  /\ UNCHANGED <<f, acq>>

\* fopen(inputFilename, "rb"), lines 50-54.
Read_fopen ==
  /\ pc = "r_fopen"
  /\ IF file.exists
       THEN /\ f' = "open"
            /\ Acquire("file")
            /\ pc' = "r_create"
       ELSE ReadOpenFailed
  /\ UNCHANGED <<nativeAlpha, avif, file, op, args, ret, cinfo, rgb,
                 rgbPremultiplied, iccData, row, row_stride, rel, entry, sent,
                 trace, lastWrite, again>>

\* my_error_exit: longjmp to the setjmp of line 60, which goes to cleanup.
\* Every local keeps the value it had when the codec raised the error.
my_error_exit(call) ==
  /\ pc' = "r_cleanup"
  /\ trace' = trace \o <<call, "fatal">>

\* jpeg_create_decompress, line 64. A session that failed to initialise
\* still owns what it allocated and is destroyed at cleanup.
Read_create ==
  /\ pc = "r_create"
  /\ Acquire("session")
  /\ \/ /\ cinfo' = [cinfo EXCEPT !.state = "created"]
        /\ pc' = "r_header"
        /\ trace' = Append(trace, "create")
     \/ /\ cinfo' = [cinfo EXCEPT !.state = "partial"]
        /\ my_error_exit("create")
  /\ UNCHANGED <<nativeAlpha, avif, file, op, args, ret, f, rgb,
                 rgbPremultiplied, iccData, row, row_stride, rel, entry, sent,
                 lastWrite, again>>

\* setup_read_icc_profile, jpeg_stdio_src, jpeg_read_header, lines 66-68.
\* A header read to its end leaves the session with the size of the picture
\* and the decoder's default output colour space, which for the three-
\* component streams of this model is JCS_RGB.
Read_header ==
  /\ pc = "r_header"
  /\ \/ /\ file.hasHeader
        /\ cinfo' = [cinfo EXCEPT !.state = "header",
                                  !.image_width = file.width,
                                  !.image_height = file.height,
                                  !.out_color_space = JCS_RGB]
        /\ pc' = "r_start"
        /\ trace' = Append(trace, "readHeader")
     \/ /\ my_error_exit("readHeader")
        /\ UNCHANGED cinfo
  /\ UNCHANGED <<nativeAlpha, avif, file, op, args, ret, f, rgb,
                 rgbPremultiplied, iccData, row, row_stride, acq, rel, entry,
                 sent, lastWrite, again>>

\* out_color_space = JCS_RGB; jpeg_start_decompress; row_stride and the
\* codec-owned one-row sample array, lines 69-73.
Read_start ==
  /\ pc = "r_start"
  /\ \/ /\ cinfo' = [cinfo EXCEPT !.state = "started",
                                  !.out_color_space = JCS_RGB,
                                  !.output_width = cinfo.image_width,
                                  !.output_height = cinfo.image_height,
                                  !.output_components = 3,
                                  !.output_scanline = 0]
        /\ row_stride' = cinfo.image_width * 3
        /\ pc' = "r_icc"
        /\ trace' = Append(trace, "startDecompress")
     \/ /\ cinfo' = [cinfo EXCEPT !.out_color_space = JCS_RGB]
        /\ my_error_exit("startDecompress")
        /\ UNCHANGED row_stride
  /\ UNCHANGED <<nativeAlpha, avif, file, op, args, ret, f, rgb,
                 rgbPremultiplied, iccData, row, acq, rel, entry, sent,
                 lastWrite, again>>

\* avifImageSetProfileICC: the bytes are copied into the image.
avifImageSetProfileICC(image, bytes) == [image EXCEPT !.icc = bytes]

\* An extraction that stores what it got in the image whether or not a
\* profile was found.
Read_icc_SetsProfileAlways ==
  /\ pc = "r_icc"
  /\ IF read_icc_profile_found(file.markers)
       THEN /\ iccData' = [allocated |-> TRUE,
                           bytes |-> read_icc_profile_data(file.markers)]
            /\ Acquire("icc")
       ELSE UNCHANGED <<iccData, acq>>
  /\ avif' = avifImageSetProfileICC(avif, read_icc_profile_data(file.markers))
  /\ pc' = "r_setup"
  /\ trace' = Append(trace, "extractProfile")
  /\ UNCHANGED <<nativeAlpha, file, op, args, ret, f, cinfo, rgb,
                 rgbPremultiplied, row, row_stride, rel, entry, sent,
                 lastWrite, again>>

\* read_icc_profile and avifImageSetProfileICC, lines 75-80.
Read_icc ==
  /\ pc = "r_icc"
  /\ IF read_icc_profile_found(file.markers)
       THEN /\ iccData' = [allocated |-> TRUE,
                           bytes |-> read_icc_profile_data(file.markers)]
            /\ Acquire("icc")
            /\ avif' = avifImageSetProfileICC(avif, read_icc_profile_data(file.markers))
       ELSE UNCHANGED <<iccData, acq, avif>>
  /\ pc' = "r_setup"
  /\ trace' = Append(trace, "extractProfile")
  /\ UNCHANGED <<nativeAlpha, file, op, args, ret, f, cinfo, rgb,
                 rgbPremultiplied, row, row_stride, rel, entry, sent,
                 lastWrite, again>>

\* A depth taken from the request without the fallback.
ReadDepthNoFallback(requestedDepth) == requestedDepth

\* requestedDepth ? requestedDepth : 8, line 85.
ReadDepth(requestedDepth) == IF requestedDepth # 0 THEN requestedDepth ELSE 8

\* Lines 82-87: the fields of the Planar Image the call sets.
ReadImageFields(image, ci, a) ==
  [image EXCEPT !.width = ci.output_width,
                !.height = ci.output_height,
                !.yuvFormat = a.requestedFormat,
                !.depth = ReadDepth(a.requestedDepth),
                !.alphaPremultiplied = FALSE]

\* Lines 82-93: image fields, the RGB buffer and its allocation, row = 0.
Read_setup ==
  /\ pc = "r_setup"
  /\ avif' = ReadImageFields(avif, cinfo, args)
  /\ rgb' = avifRGBImageAllocatePixels(
              [avifRGBImageSetDefaults(avif') EXCEPT
                  !.format = AVIF_RGB_FORMAT_RGB, !.depth = 8])
  /\ Acquire("rgb")
  /\ row' = 0
  /\ pc' = "r_scan"
  /\ UNCHANGED <<nativeAlpha, file, op, args, ret, f, cinfo,
                 rgbPremultiplied, iccData, row_stride, rel, entry, sent,
                 trace, lastWrite, again>>

\* The row the codec decodes for scanline k (1-based) into its sample array:
\* the stored row, or a grey fill where the stream holds none.
DecodedRow(k) ==
  IF k <= Len(file.rows) /\ Len(file.rows[k]) = row_stride
    THEN file.rows[k]
    ELSE [x \in 1..row_stride |-> 128]

\* memcpy(pixelRow, buffer[0], rgb.rowBytes) with pixelRow at row * rowBytes.
\* Bytes that fall outside the block are not part of its content.
CopyRow(pixels, r, rowBytes, src) ==
  [k \in 1..Len(pixels) |->
     IF k > r * rowBytes /\ k <= (r + 1) * rowBytes /\ (k - r * rowBytes) <= Len(src)
       THEN src[k - r * rowBytes]
       ELSE pixels[k]]

\* One turn of the loop of lines 94-99, or its exit.
Read_scan ==
  /\ pc = "r_scan"
  /\ IF cinfo.output_scanline < cinfo.output_height
       THEN \/ /\ cinfo' = [cinfo EXCEPT !.output_scanline = @ + 1]
               /\ rgb' = [rgb EXCEPT !.pixels =
                            CopyRow(rgb.pixels, row, rgb.rowBytes,
                                    DecodedRow(cinfo.output_scanline + 1))]
               /\ row' = row + 1
               /\ trace' = Append(trace, "readOneScanline")
               /\ UNCHANGED pc
            \/ /\ my_error_exit("readOneScanline")
               /\ UNCHANGED <<cinfo, rgb, row>>
       ELSE /\ pc' = "r_convert"
            /\ UNCHANGED <<cinfo, rgb, row, trace>>
  /\ UNCHANGED <<nativeAlpha, avif, file, op, args, ret, f,
                 rgbPremultiplied, iccData, row_stride, acq, rel, entry, sent,
                 lastWrite, again>>

\* avifImageRGBToYUV: the planes computed from an RGB buffer.
avifImageRGBToYUV(image, r) ==
  [image EXCEPT !.planes =
     [k \in 1..(r.width * r.height) |->
        LET base == ((k - 1) \div r.width) * r.rowBytes + ((k - 1) % r.width) * 3
            R == r.pixels[base + 1]
            G == r.pixels[base + 2]
            B == r.pixels[base + 3]
        IN IF Determined(<<R, G, B>>)
             THEN <<RGBToY(R, G, B), RGBToU(R, G, B), RGBToV(R, G, B), 255>>
             ELSE <<Indeterminate, Indeterminate, Indeterminate, 255>>]]

\* A conversion step that goes on to the finish step when the collaborator
\* rejected the buffer.
Read_convert_IgnoresRejection ==
  /\ pc = "r_convert"
  /\ \/ /\ avif' = avifImageRGBToYUV(avif, rgb)
        /\ pc' = "r_finish"
     \/ /\ pc' = "r_finish"
        /\ UNCHANGED avif
  /\ UNCHANGED <<nativeAlpha, file, op, args, ret, f, cinfo, rgb,
                 rgbPremultiplied, iccData, row, row_stride, acq, rel, entry,
                 sent, trace, lastWrite, again>>

\* Lines 100-103: the conversion collaborator accepts or rejects the buffer.
Read_convert ==
  /\ pc = "r_convert"
  /\ \/ /\ avif' = avifImageRGBToYUV(avif, rgb)
        /\ pc' = "r_finish"
     \/ /\ pc' = "r_cleanup"
        /\ UNCHANGED avif
  /\ UNCHANGED <<nativeAlpha, file, op, args, ret, f, cinfo, rgb,
                 rgbPremultiplied, iccData, row, row_stride, acq, rel, entry,
                 sent, trace, lastWrite, again>>

\* jpeg_finish_decompress and ret = AVIF_TRUE, lines 105-106.
Read_finish ==
  /\ pc = "r_finish"
  /\ \/ /\ cinfo' = [cinfo EXCEPT !.state = "finished"]
        /\ ret' = TRUE
        /\ pc' = "r_cleanup"
        /\ trace' = Append(trace, "finishDecompress")
     \/ /\ my_error_exit("finishDecompress")
        /\ UNCHANGED <<cinfo, ret>>
  /\ UNCHANGED <<nativeAlpha, avif, file, op, args, f, rgb,
                 rgbPremultiplied, iccData, row, row_stride, acq, rel, entry,
                 sent, lastWrite, again>>

\* A cleanup that forgets free(iccData).
ReadCleanupForgetsIcc ==
  [r \in Resources |->
     CASE r = "session" -> 1
       [] r = "file" -> IF f # "NULL" THEN 1 ELSE 0
       [] r = "rgb" -> FreesBlock(rgb)
       [] OTHER -> 0]

\* What the cleanup of lines 107-114 hands back, by kind.
ReadCleanupReleases ==
  [r \in Resources |->
     CASE r = "session" -> 1
       [] r = "file" -> IF f # "NULL" THEN 1 ELSE 0
       [] r = "icc" -> IF iccData.allocated THEN 1 ELSE 0
       [] r = "rgb" -> FreesBlock(rgb)
       [] OTHER -> 0]

\* A cleanup that does not destroy the session.
Read_cleanup_NoDestroy ==
  /\ pc = "r_cleanup"
  /\ f' = "NULL"
  /\ iccData' = NoIccData
  /\ rgb' = avifRGBImageFreePixels(rgb)
  /\ rel' = [r \in Resources |-> rel[r] + ReadCleanupReleases[r]]
  /\ pc' = "returned"
  /\ UNCHANGED <<nativeAlpha, avif, file, op, args, ret, rgbPremultiplied,
                 row, row_stride, acq, entry, sent, lastWrite, again, cinfo,
                 trace>>

\* cleanup: lines 107-114.
Read_cleanup ==
  /\ pc = "r_cleanup"
  /\ cinfo' = [cinfo EXCEPT !.state = "destroyed"]
  /\ f' = "NULL"
  /\ iccData' = NoIccData
  /\ rgb' = avifRGBImageFreePixels(rgb)
  /\ rel' = [r \in Resources |-> rel[r] + ReadCleanupReleases[r]]
  /\ trace' = Append(trace, "destroy")
  /\ pc' = "returned"
  /\ UNCHANGED <<nativeAlpha, avif, file, op, args, ret, rgbPremultiplied,
                 row, row_stride, acq, entry, sent, lastWrite, again>>

\* =========================================================== avifJPEGWrite
\* The caller invokes avifJPEGWrite; ret and f are initialised (lines 142-143).
CallWrite ==
  /\ CanCall
  /\ args' \in WriteRequests
  /\ op' = "write"
  /\ pc' = "w_create"
  /\ ret' = FALSE
  /\ f' = "NULL"
  /\ iccData' = NoIccData
  /\ rgb' = ZeroRGBImage
  /\ rgbPremultiplied' = ZeroRGBImage
  /\ cinfo' = NoSession
  /\ row' = 0
  /\ row_stride' = 0
  /\ acq' = NoneHeld
  /\ rel' = NoneHeld
  /\ entry' = avif
  /\ sent' = <<>>
  /\ trace' = <<>>
  /\ again' = (pc = "returned")
  /\ UNCHANGED <<nativeAlpha, avif, file, lastWrite>>

\* The error_exit that jpeg_std_error installs (line 148; no handler of the
\* bridge replaces it): the message is printed, the session ci is destroyed
\* (jpeg_destroy) and the process exits. The file handle is not closed and
\* the pixel buffers are not freed; what the codec had put in the
\* destination buffer is lost with the session.
std_error_exit(call, ci) ==
  /\ pc' = "exited"
  /\ cinfo' = [ci EXCEPT !.state = "destroyed", !.markers = <<>>]
  /\ rel' = [rel EXCEPT !["session"] = @ + 1]
  /\ trace' = trace \o <<call, "fatal", "destroy">>

\* jpeg_std_error and jpeg_create_compress, lines 148-149.
Write_create ==
  /\ pc = "w_create"
  /\ Acquire("session")
  /\ \/ /\ cinfo' = [cinfo EXCEPT !.state = "created"]
        /\ pc' = "w_toRGB"
        /\ trace' = Append(trace, "create")
        /\ UNCHANGED rel
     \/ std_error_exit("create", cinfo)
  /\ UNCHANGED <<nativeAlpha, avif, file, op, args, ret, f, rgb,
                 rgbPremultiplied, iccData, row, row_stride, entry, sent,
                 lastWrite, again>>

\* rgb.format of line 155: chosen from the source alpha state alone.
WriteFormat(image) ==
  IF image.alphaPremultiplied THEN AVIF_RGB_FORMAT_RGB ELSE AVIF_RGB_FORMAT_RGBA

\* Lines 153-160: the buffer requested of the conversion collaborator.
WriteRequestedBuffer(image, a) ==
  [avifRGBImageSetDefaults(image) EXCEPT
     !.format = WriteFormat(image),
     !.chromaUpsampling = a.chromaUpsampling,
     !.depth = 8,
     !.alphaPremultiplied = TRUE]

\* The image holds planes of its own width and height; the conversion
\* collaborator rejects an image that does not.
HasPlanes(image) == Len(image.planes) = image.width * image.height

\* avifImageYUVToRGB: the buffer filled from the planes, the colours scaled
\* by alpha when the image is straight and the buffer is asked premultiplied.
avifImageYUVToRGB(image, r) ==
  LET ps == avifRGBImagePixelSize(r)
      scale == ~image.alphaPremultiplied /\ r.alphaPremultiplied
      Colour(c, a) == IF scale THEN PremultiplySample(c, a) ELSE c
  IN [r EXCEPT !.pixels =
       [k \in 1..Len(r.pixels) |->
          LET j == (k - 1) \div r.rowBytes
              i == ((k - 1) % r.rowBytes) \div ps
              c == ((k - 1) % r.rowBytes) % ps
              px == image.planes[j * image.width + i + 1]
          IN CASE c = 0 -> Colour(YUVToR(px[1], px[2], px[3]), px[4])
               [] c = 1 -> Colour(YUVToG(px[1], px[2], px[3]), px[4])
               [] c = 2 -> Colour(YUVToB(px[1], px[2], px[3]), px[4])
               [] OTHER -> px[4]]]

\* Lines 151-165: both buffers get their defaults, rgb is allocated and the
\* conversion collaborator fills it or rejects the request.
Write_toRGB ==
  /\ pc = "w_toRGB"
  /\ rgbPremultiplied' = avifRGBImageSetDefaults(avif)
  /\ Acquire("rgb")
  /\ LET buf == avifRGBImageAllocatePixels(WriteRequestedBuffer(avif, args))
     IN \/ /\ HasPlanes(avif)
           /\ rgb' = avifImageYUVToRGB(avif, buf)
           /\ pc' = IF ~nativeAlpha /\ ~avif.alphaPremultiplied
                      THEN "w_premultiply" ELSE "w_fopen"
        \/ /\ rgb' = buf
           /\ pc' = "w_cleanup"
  /\ UNCHANGED <<nativeAlpha, avif, file, op, args, ret, f, cinfo, iccData,
                 row, row_stride, rel, entry, sent, trace, lastWrite, again>>

\* avifRGBImagePremultiplyAlpha: every colour sample of an RGBA buffer is
\* scaled by the alpha of its pixel, in place.
avifRGBImagePremultiplyAlpha(r) ==
  [r EXCEPT !.pixels =
     [k \in 1..Len(r.pixels) |->
        LET c == ((k - 1) % r.rowBytes) % 4
        IN IF c = 3 THEN r.pixels[k]
           ELSE PremultiplySample(r.pixels[k], r.pixels[k - c + 3])]]

\* Lines 169-173 (builds without JCS_ALPHA_EXTENSIONS, straight alpha).
Write_premultiply ==
  /\ pc = "w_premultiply"
  /\ \/ /\ rgb' = avifRGBImagePremultiplyAlpha(rgb)
        /\ pc' = "w_strip"
     \/ /\ pc' = "w_cleanup"
        /\ UNCHANGED rgb
  /\ UNCHANGED <<nativeAlpha, avif, file, op, args, ret, f, cinfo,
                 rgbPremultiplied, iccData, row, row_stride, acq, rel, entry,
                 sent, trace, lastWrite, again>>

\* avifRGBAToRGB, lines 119-137. dst takes the geometry of src and a fresh
\* block; the loop copies the three colour bytes of pixel (i, j) from
\* srcRow[i * 4] to dstRow[i * 3], where both srcRow and dstRow point into
\* src->pixels (lines 129-130): the block of dst is never written.
avifRGBAToRGB(src, dst) ==
  LET d == avifRGBImageAllocatePixels(
             [dst EXCEPT !.width = src.width, !.height = src.height,
                         !.format = AVIF_RGB_FORMAT_RGB, !.depth = 8])
      Written(k) ==
        \* the pixel whose copy lands on byte k of src->pixels, if any
        { <<i, j>> \in (0..(src.width - 1)) \X (0..(src.height - 1)) :
            (k - 1) - (j * d.rowBytes + i * 3) \in 0..2 }
  IN [dst |-> d,
      src |-> [src EXCEPT !.pixels =
                 [k \in 1..Len(src.pixels) |->
                    IF Written(k) = {} THEN src.pixels[k]
                    ELSE LET p == CHOOSE q \in Written(k) : TRUE
                             c == (k - 1) - (p[2] * d.rowBytes + p[1] * 3)
                         IN src.pixels[p[2] * src.rowBytes + p[1] * 4 + c + 1]]]]

\* Lines 174-175: strip the alpha byte, then release the RGBA buffer.
Write_strip ==
  /\ pc = "w_strip"
  /\ LET out == avifRGBAToRGB(rgb, rgbPremultiplied)
     IN /\ rgbPremultiplied' = out.dst
        /\ rgb' = avifRGBImageFreePixels(out.src)
        /\ rel' = [rel EXCEPT !["rgb"] = @ + FreesBlock(out.src)]
  /\ Acquire("rgbPremultiplied")
  /\ pc' = "w_fopen"
  /\ UNCHANGED <<nativeAlpha, avif, file, op, args, ret, f, cinfo, iccData,
                 row, row_stride, entry, sent, trace, lastWrite, again>>

\* fopen(outputFilename, "wb"), lines 179-183.
Write_fopen ==
  /\ pc = "w_fopen"
  /\ \/ /\ f' = "open"
        /\ Acquire("file")
        /\ file' = EmptyFile
        /\ pc' = "w_config"
     \/ /\ pc' = "w_cleanup"
        /\ UNCHANGED <<f, acq, file>>
  /\ UNCHANGED <<nativeAlpha, avif, op, args, ret, cinfo, rgb,
                 rgbPremultiplied, iccData, row, row_stride, rel, entry, sent,
                 trace, lastWrite, again>>

\* Lines 186-194: the session's picture of its input.
WriteSessionConfig(ci, image, native) ==
  [ci EXCEPT !.image_width = image.width,
             !.image_height = image.height,
             !.input_components = 3,
             !.in_color_space = IF native THEN JCS_EXT_RGBX ELSE JCS_RGB]

\* Bytes per pixel the codec reads for an input colour space.
CodecBytesPerPixel(cs) == IF cs = JCS_EXT_RGBX THEN 4 ELSE 3

\* What jpeg_start_compress checks of the configuration: an image with no
\* pixel is refused ("Empty JPEG image"), and so is a number of input
\* components that is not the pixel size of the input colour space ("Bogus
\* input colorspace").
jpeg_start_compress_accepts(ci) ==
  /\ ci.image_width > 0 /\ ci.image_height > 0
  /\ ci.input_components = CodecBytesPerPixel(ci.in_color_space)

\* jpeg_stdio_dest, the session's configuration, jpeg_set_defaults,
\* jpeg_set_quality and jpeg_start_compress, lines 185-197. What the codec
\* emits goes to the buffer of the destination manager, not yet to the file.
Write_config ==
  /\ pc = "w_config"
  /\ LET cfg == WriteSessionConfig(cinfo, avif, nativeAlpha)
     IN \/ /\ jpeg_start_compress_accepts(cfg)
           /\ cinfo' = [cfg EXCEPT !.state = "started", !.next_scanline = 0]
           /\ pc' = "w_icc"
           /\ trace' = Append(trace, "startCompress")
           /\ UNCHANGED rel
        \/ std_error_exit("startCompress", cfg)
  /\ UNCHANGED <<nativeAlpha, avif, file, op, args, ret, f, rgb,
                 rgbPremultiplied, iccData, row, row_stride, acq, entry, sent,
                 lastWrite, again>>

\* A test that never finds a profile.
HasProfileNever(image) == Len(image.icc) < 0

\* A test that finds a profile in every image.
HasProfileAlways(image) == Len(image.icc) >= 0

\* avif->icc.data && (avif->icc.size > 0), line 199.
HasProfile(image) == Len(image.icc) > 0

\* Lines 199-201: the profile, when there is one, goes out as APP2 markers
\* (into the destination buffer).
Write_icc ==
  /\ pc = "w_icc"
  /\ IF HasProfile(avif)
       THEN \/ /\ cinfo' = [cinfo EXCEPT !.markers = write_icc_profile(avif.icc)]
               /\ pc' = "w_scan"
               /\ trace' = Append(trace, "embedProfile")
               /\ UNCHANGED rel
            \/ std_error_exit("embedProfile", cinfo)
       ELSE /\ pc' = "w_scan"
            /\ UNCHANGED <<cinfo, trace, rel>>
  /\ UNCHANGED <<nativeAlpha, avif, file, op, args, ret, f, rgb,
                 rgbPremultiplied, iccData, row, row_stride, acq, entry,
                 sent, lastWrite, again>>

\* The buffer whose rows the pump of lines 203-220 points the codec at.
PumpBuffer ==
  IF nativeAlpha \/ avif.alphaPremultiplied THEN rgb ELSE rgbPremultiplied

\* Bytes the codec reads from row_pointer[0] for one scanline.
CodecRowBytes(ci) == ci.image_width * CodecBytesPerPixel(ci.in_color_space)

\* row_pointer[0] = &pixels[next_scanline * rowBytes], as an offset.
RowPointer(buf, ci) == ci.next_scanline * buf.rowBytes

\* The codec's read of one scanline stays inside the block.
ReadInBounds(buf, ci) == RowPointer(buf, ci) + CodecRowBytes(ci) <= Len(buf.pixels)

\* What the codec reads: the bytes of the block, and for a read that runs
\* past its end whatever lies behind it.
CodecReadsRow(buf, ci) ==
  [k \in 1..CodecRowBytes(ci) |->
     IF RowPointer(buf, ci) + k <= Len(buf.pixels)
       THEN buf.pixels[RowPointer(buf, ci) + k]
       ELSE Indeterminate]

\* ------------------------------------------------------------ the codec
\* What the codec makes of the rows it is handed, as jpeg_set_defaults and
\* jpeg_set_quality(quality, TRUE) configure it (YCbCr, chroma subsampled
\* 2x2, slow integer DCT, baseline tables) and as the decoder of
\* avifJPEGRead undoes it (out_color_space = JCS_RGB). The operators cover
\* images that fit one 8x8 block and whose chroma is at most two samples
\* wide (no fancy upsampling), which the images of this model are.
range_limit(x) == IF x < 0 THEN 0 ELSE IF x > 255 THEN 255 ELSE x
MinOf(a, b) == IF a < b THEN a ELSE b
\* DESCALE of jdct.h: x / 2^n rounded to nearest (arithmetic right shift).
DESCALE(x, n) == (x + 2 ^ (n - 1)) \div (2 ^ n)

\* jccolor.c, rgb_ycc_convert (16-bit fixed point).
jpeg_rgb_y(R, G, B) == (19595 * R + 38470 * G + 7471 * B + 32768) \div 65536
jpeg_rgb_cb(R, G, B) == (32768 * B - 11059 * R - 21709 * G + 8421375) \div 65536
jpeg_rgb_cr(R, G, B) == (32768 * R - 27439 * G - 5329 * B + 8421375) \div 65536
\* jdcolor.c, ycc_rgb_convert.
jpeg_ycc_r(y, cb, cr) == range_limit(y + ((91881 * (cr - 128) + 32768) \div 65536))
jpeg_ycc_g(y, cb, cr) ==
  range_limit(y + ((32768 - 22554 * (cb - 128) - 46802 * (cr - 128)) \div 65536))
jpeg_ycc_b(y, cb, cr) == range_limit(y + ((116130 * (cb - 128) + 32768) \div 65536))

\* jcparam.c: the standard tables, and jpeg_set_quality(q, TRUE).
std_luminance_quant_tbl ==
  << <<16, 11, 10, 16, 24, 40, 51, 61>>,
     <<12, 12, 14, 19, 26, 58, 60, 55>>,
     <<14, 13, 16, 24, 40, 57, 69, 56>>,
     <<14, 17, 22, 29, 51, 87, 80, 62>>,
     <<18, 22, 37, 56, 68, 109, 103, 77>>,
     <<24, 35, 55, 64, 81, 104, 113, 92>>,
     <<49, 64, 78, 87, 103, 121, 120, 101>>,
     <<72, 92, 95, 98, 112, 100, 103, 99>> >>
std_chrominance_quant_tbl ==
  << <<17, 18, 24, 47, 99, 99, 99, 99>>,
     <<18, 21, 26, 66, 99, 99, 99, 99>>,
     <<24, 26, 56, 99, 99, 99, 99, 99>>,
     <<47, 66, 99, 99, 99, 99, 99, 99>>,
     <<99, 99, 99, 99, 99, 99, 99, 99>>,
     <<99, 99, 99, 99, 99, 99, 99, 99>>,
     <<99, 99, 99, 99, 99, 99, 99, 99>>,
     <<99, 99, 99, 99, 99, 99, 99, 99>> >>
jpeg_quality_scaling(quality) ==
  LET q == IF quality <= 0 THEN 1 ELSE IF quality > 100 THEN 100 ELSE quality
  IN IF q < 50 THEN 5000 \div q ELSE 200 - q * 2
QuantStep(base, quality) ==
  LET t == (base * jpeg_quality_scaling(quality) + 50) \div 100
  IN IF t <= 0 THEN 1 ELSE IF t > 255 THEN 255 ELSE t

Column(b, c) == <<b[1][c], b[2][c], b[3][c], b[4][c], b[5][c], b[6][c], b[7][c], b[8][c]>>
Transpose(b) ==
  <<Column(b, 1), Column(b, 2), Column(b, 3), Column(b, 4),
    Column(b, 5), Column(b, 6), Column(b, 7), Column(b, 8)>>

\* jfdctint.c: one 8-point pass of jpeg_fdct_islow (pass 1 on rows, pass 2
\* on columns).
fdct_pass(d, first) ==
  LET tmp0 == d[1] + d[8]
      tmp7 == d[1] - d[8]
      tmp1 == d[2] + d[7]
      tmp6 == d[2] - d[7]
      tmp2 == d[3] + d[6]
      tmp5 == d[3] - d[6]
      tmp3 == d[4] + d[5]
      tmp4 == d[4] - d[5]
      tmp10 == tmp0 + tmp3
      tmp13 == tmp0 - tmp3
      tmp11 == tmp1 + tmp2
      tmp12 == tmp1 - tmp2
      ze == (tmp12 + tmp13) * 4433
      z1 == (tmp4 + tmp7) * (-7373)
      z2 == (tmp5 + tmp6) * (-20995)
      z5 == (tmp4 + tmp6 + tmp5 + tmp7) * 9633
      z3 == (tmp4 + tmp6) * (-16069) + z5
      z4 == (tmp5 + tmp7) * (-3196) + z5
      Even(x) == IF first THEN x * 4 ELSE DESCALE(x, 2)
      Odd(x) == IF first THEN DESCALE(x, 11) ELSE DESCALE(x, 15)
  IN << Even(tmp10 + tmp11),
        Odd(tmp7 * 12299 + z1 + z4),
        Odd(ze + tmp13 * 6270),
        Odd(tmp6 * 25172 + z2 + z3),
        Even(tmp10 - tmp11),
        Odd(tmp5 * 16819 + z2 + z4),
        Odd(ze - tmp12 * 15137),
        Odd(tmp4 * 2446 + z1 + z3) >>
fdct_rows(b) ==
  <<fdct_pass(b[1], TRUE), fdct_pass(b[2], TRUE), fdct_pass(b[3], TRUE),
    fdct_pass(b[4], TRUE), fdct_pass(b[5], TRUE), fdct_pass(b[6], TRUE),
    fdct_pass(b[7], TRUE), fdct_pass(b[8], TRUE)>>
fdct_cols(b) ==
  Transpose(<<fdct_pass(Column(b, 1), FALSE), fdct_pass(Column(b, 2), FALSE),
              fdct_pass(Column(b, 3), FALSE), fdct_pass(Column(b, 4), FALSE),
              fdct_pass(Column(b, 5), FALSE), fdct_pass(Column(b, 6), FALSE),
              fdct_pass(Column(b, 7), FALSE), fdct_pass(Column(b, 8), FALSE)>>)
jpeg_fdct_islow(b) == fdct_cols(fdct_rows(b))

\* jidctint.c: one 8-point pass of jpeg_idct_islow (pass 1 on columns,
\* pass 2 on rows, which also range-limits).
idct_pass(v, first) ==
  LET ze == (v[3] + v[7]) * 4433
      e2 == ze - v[7] * 15137
      e3 == ze + v[3] * 6270
      e0 == (v[1] + v[5]) * 8192
      e1 == (v[1] - v[5]) * 8192
      tmp10 == e0 + e3
      tmp13 == e0 - e3
      tmp11 == e1 + e2
      tmp12 == e1 - e2
      z1 == (v[8] + v[2]) * (-7373)
      z2 == (v[6] + v[4]) * (-20995)
      z5 == (v[8] + v[4] + v[6] + v[2]) * 9633
      z3 == (v[8] + v[4]) * (-16069) + z5
      z4 == (v[6] + v[2]) * (-3196) + z5
      tmp0 == v[8] * 2446 + z1 + z3
      tmp1 == v[6] * 16819 + z2 + z4
      tmp2 == v[4] * 25172 + z2 + z3
      tmp3 == v[2] * 12299 + z1 + z4
      Out(x) == IF first THEN DESCALE(x, 11) ELSE range_limit(DESCALE(x, 18) + 128)
  IN << Out(tmp10 + tmp3), Out(tmp11 + tmp2), Out(tmp12 + tmp1), Out(tmp13 + tmp0),
        Out(tmp13 - tmp0), Out(tmp12 - tmp1), Out(tmp11 - tmp2), Out(tmp10 - tmp3) >>
idct_cols(c) ==
  Transpose(<<idct_pass(Column(c, 1), TRUE), idct_pass(Column(c, 2), TRUE),
              idct_pass(Column(c, 3), TRUE), idct_pass(Column(c, 4), TRUE),
              idct_pass(Column(c, 5), TRUE), idct_pass(Column(c, 6), TRUE),
              idct_pass(Column(c, 7), TRUE), idct_pass(Column(c, 8), TRUE)>>)
idct_rows(c) ==
  <<idct_pass(c[1], FALSE), idct_pass(c[2], FALSE), idct_pass(c[3], FALSE),
    idct_pass(c[4], FALSE), idct_pass(c[5], FALSE), idct_pass(c[6], FALSE),
    idct_pass(c[7], FALSE), idct_pass(c[8], FALSE)>>
jpeg_idct_islow(c) == idct_rows(idct_cols(c))

\* jcdctmgr.c quantize and the decoder's dequantisation: the coefficient
\* (scaled by 8) divided by the step with rounding, times the step.
Requantize(x, step) ==
  LET a == IF x < 0 THEN 0 - x ELSE x
      n == (a + 4 * step) \div (8 * step)
  IN (IF x < 0 THEN 0 - n ELSE n) * step
RequantizeBlock(b, tbl, quality) ==
  LET Row(r) == <<Requantize(b[r][1], QuantStep(tbl[r][1], quality)),
                  Requantize(b[r][2], QuantStep(tbl[r][2], quality)),
                  Requantize(b[r][3], QuantStep(tbl[r][3], quality)),
                  Requantize(b[r][4], QuantStep(tbl[r][4], quality)),
                  Requantize(b[r][5], QuantStep(tbl[r][5], quality)),
                  Requantize(b[r][6], QuantStep(tbl[r][6], quality)),
                  Requantize(b[r][7], QuantStep(tbl[r][7], quality)),
                  Requantize(b[r][8], QuantStep(tbl[r][8], quality))>>
  IN <<Row(1), Row(2), Row(3), Row(4), Row(5), Row(6), Row(7), Row(8)>>
\* One 8x8 block through the encoder and the decoder.
CodecBlock(b, tbl, quality) ==
  jpeg_idct_islow(RequantizeBlock(jpeg_fdct_islow(b), tbl, quality))

\* The rows a decoder delivers for the stream the encoder makes of rows
\* (w pixels of bpp bytes each, h rows) at the given quality.
JPEGRoundTrip(rows, w, h, bpp, quality) ==
  LET S(x, y, c) == rows[MinOf(y, h - 1) + 1][MinOf(x, w - 1) * bpp + c + 1]
      Y(x, y) == jpeg_rgb_y(S(x, y, 0), S(x, y, 1), S(x, y, 2))
      Cb(x, y) == jpeg_rgb_cb(S(x, y, 0), S(x, y, 1), S(x, y, 2))
      Cr(x, y) == jpeg_rgb_cr(S(x, y, 0), S(x, y, 1), S(x, y, 2))
      Bias(x) == IF x % 2 = 0 THEN 1 ELSE 2
      L(x, y) == Y(x, y) - 128
      Group(y) == MinOf(y, ((h + 1) \div 2) - 1)
      DCb(x, y) == ((Cb(2 * x, 2 * Group(y)) + Cb(2 * x + 1, 2 * Group(y))
                      + Cb(2 * x, 2 * Group(y) + 1) + Cb(2 * x + 1, 2 * Group(y) + 1)
                      + Bias(x)) \div 4) - 128
      DCr(x, y) == ((Cr(2 * x, 2 * Group(y)) + Cr(2 * x + 1, 2 * Group(y))
                      + Cr(2 * x, 2 * Group(y) + 1) + Cr(2 * x + 1, 2 * Group(y) + 1)
                      + Bias(x)) \div 4) - 128
      Block8(P(_, _)) ==
        LET Row(y) == <<P(0, y), P(1, y), P(2, y), P(3, y),
                        P(4, y), P(5, y), P(6, y), P(7, y)>>
        IN <<Row(0), Row(1), Row(2), Row(3), Row(4), Row(5), Row(6), Row(7)>>
      yb == CodecBlock(Block8(L), std_luminance_quant_tbl, quality)
      cbb == CodecBlock(Block8(DCb), std_chrominance_quant_tbl, quality)
      crb == CodecBlock(Block8(DCr), std_chrominance_quant_tbl, quality)
  IN [j \in 1..h |->
       [k \in 1..(3 * w) |->
          LET i == (k - 1) \div 3
              c == (k - 1) % 3
              yy == yb[j][i + 1]
              cb == cbb[((j - 1) \div 2) + 1][(i \div 2) + 1]
              cr == crb[((j - 1) \div 2) + 1][(i \div 2) + 1]
          IN CASE c = 0 -> jpeg_ycc_r(yy, cb, cr)
               [] c = 1 -> jpeg_ycc_g(yy, cb, cr)
               [] OTHER -> jpeg_ycc_b(yy, cb, cr)]]

\* One turn of the loop of lines 203-220 (one jpeg_write_scanlines of one
\* row, which the session takes in), or its exit.
Write_scan ==
  /\ pc = "w_scan"
  /\ IF cinfo.next_scanline < cinfo.image_height
       THEN \/ /\ sent' = Append(sent, CodecReadsRow(PumpBuffer, cinfo))
               /\ cinfo' = [cinfo EXCEPT !.next_scanline = @ + 1]
               /\ trace' = Append(trace, "writeOneScanline")
               /\ UNCHANGED <<pc, rel>>
            \/ /\ std_error_exit("writeOneScanline", cinfo)
               /\ UNCHANGED sent
       ELSE /\ pc' = "w_finish"
            /\ UNCHANGED <<sent, cinfo, trace, rel>>
  /\ UNCHANGED <<nativeAlpha, avif, file, op, args, ret, f, rgb,
                 rgbPremultiplied, iccData, row, row_stride, acq, entry,
                 lastWrite, again>>

\* The file once jpeg_finish_compress has flushed the destination buffer:
\* the header of the configured size, the markers, and the scan data, kept
\* as the rows a decoder delivers for it. encoded remembers the image the
\* stream was made of.
\* The rows of the stream the encoder makes of the rows it was handed.
\* Every sample of a block takes part in every coefficient of its transform,
\* so where a byte handed over was indeterminate the picture is too.
EncodedRows(rows, w, h, bpp, quality) ==
  IF \A j \in 1..Len(rows) : Determined(rows[j])
    THEN JPEGRoundTrip(rows, w, h, bpp, quality)
    ELSE [j \in 1..h |-> [k \in 1..(3 * w) |-> Indeterminate]]

FinishedStream(ci, image, rows, quality) ==
  [exists |-> TRUE, hasHeader |-> TRUE,
   width |-> ci.image_width, height |-> ci.image_height,
   markers |-> ci.markers,
   rows |-> EncodedRows(rows, ci.image_width, ci.image_height,
                        CodecBytesPerPixel(ci.in_color_space), quality),
   encoded |-> [valid |-> TRUE, width |-> image.width,
                height |-> image.height, icc |-> image.icc]]

\* A finish step that leaves ret as it was.
Write_finish_ForgetsRet ==
  /\ pc = "w_finish"
  /\ \/ /\ cinfo' = [cinfo EXCEPT !.state = "finished"]
        /\ file' = FinishedStream(cinfo, avif, sent, args.jpegQuality)
        /\ UNCHANGED ret
        /\ pc' = "w_cleanup"
        /\ trace' = Append(trace, "finishCompress")
        /\ UNCHANGED rel
     \/ /\ std_error_exit("finishCompress", cinfo)
        /\ UNCHANGED <<file, ret>>
  /\ UNCHANGED <<nativeAlpha, avif, op, args, f, rgb, rgbPremultiplied,
                 iccData, row, row_stride, acq, entry, sent, lastWrite,
                 again>>

\* jpeg_finish_compress and ret = AVIF_TRUE, lines 222-224.
Write_finish ==
  /\ pc = "w_finish"
  /\ \/ /\ cinfo' = [cinfo EXCEPT !.state = "finished"]
        /\ file' = FinishedStream(cinfo, avif, sent, args.jpegQuality)
        /\ ret' = TRUE
        /\ pc' = "w_cleanup"
        /\ trace' = Append(trace, "finishCompress")
        /\ UNCHANGED rel
     \/ /\ std_error_exit("finishCompress", cinfo)
        /\ UNCHANGED <<file, ret>>
  /\ UNCHANGED <<nativeAlpha, avif, op, args, f, rgb, rgbPremultiplied,
                 iccData, row, row_stride, acq, entry, sent, lastWrite,
                 again>>

\* A cleanup that frees the block rgb was given whether or not the pointer
\* has been cleared since.
WriteCleanupFreesRgbAgain ==
  [r \in Resources |->
     CASE r = "session" -> 1
       [] r = "file" -> IF f # "NULL" THEN 1 ELSE 0
       [] r = "rgb" -> acq["rgb"]
       [] r = "rgbPremultiplied" -> FreesBlock(rgbPremultiplied)
       [] OTHER -> 0]

\* What the cleanup of lines 225-232 hands back, by kind.
WriteCleanupReleases ==
  [r \in Resources |->
     CASE r = "session" -> 1
       [] r = "file" -> IF f # "NULL" THEN 1 ELSE 0
       [] r = "rgb" -> FreesBlock(rgb)
       [] r = "rgbPremultiplied" -> FreesBlock(rgbPremultiplied)
       [] OTHER -> 0]

\* cleanup: lines 225-232. A successful encode is remembered, to compare a
\* later encode of the same image with it.
Write_cleanup ==
  /\ pc = "w_cleanup"
  /\ f' = "NULL"
  /\ cinfo' = [cinfo EXCEPT !.state = "destroyed"]
  /\ rgb' = avifRGBImageFreePixels(rgb)
  /\ rgbPremultiplied' = avifRGBImageFreePixels(rgbPremultiplied)
  /\ rel' = [r \in Resources |-> rel[r] + WriteCleanupReleases[r]]
  /\ trace' = Append(trace, "destroy")
  /\ lastWrite' = IF ret
                    THEN [valid |-> TRUE, image |-> avif,
                          jpegQuality |-> args.jpegQuality,
                          chromaUpsampling |-> args.chromaUpsampling,
                          sent |-> sent]
                    ELSE lastWrite
  /\ pc' = "returned"
  /\ UNCHANGED <<nativeAlpha, avif, file, op, args, ret, iccData, row,
                 row_stride, acq, entry, sent, again>>

Next ==
  \/ CallRead
  \/ Read_fopen
  \/ Read_create
  \/ Read_header
  \/ Read_start
  \/ Read_icc
  \/ Read_setup
  \/ Read_scan
  \/ Read_convert
  \/ Read_finish
  \/ Read_cleanup
  \/ CallWrite
  \/ Write_create
  \/ Write_toRGB
  \/ Write_premultiply
  \/ Write_strip
  \/ Write_fopen
  \/ Write_config
  \/ Write_icc
  \/ Write_scan
  \/ Write_finish
  \/ Write_cleanup

Spec == Init /\ [][Next]_vars

\* The build whose codec has no alpha extension (JCS_ALPHA_EXTENSIONS is not
\* defined): the build in which the alpha fallback of lines 168-177 exists.
InitPlainCodec == Init /\ ~nativeAlpha
SpecPlainCodec == InitPlainCodec /\ [][Next]_vars
\* ================================================================ claims
Range(q) == {q[k] : k \in 1..Len(q)}
\* A codec call of the running call raised a fatal error.
RaisedFatal == "fatal" \in Range(trace)
\* The position in trace of the first fatal error.
FatalAt == CHOOSE k \in 1..Len(trace) : trace[k] = "fatal" /\ \A m \in 1..(k - 1) : trace[m] # "fatal"

\* C1: whichever way avifJPEGRead ends, every resource it acquired (file
\* handle, codec session, RGB pixel buffer, ICC byte buffer) has been released
\* exactly once when it returns, nothing is released that was not acquired,
\* and nothing is acquired twice.
C1_ReadReleasesEachResourceOnce ==
  op = "read" =>
    /\ \A r \in Resources : rel[r] <= acq[r] /\ acq[r] <= 1
    /\ pc = "returned" => \A r \in Resources : rel[r] = acq[r]

\* A decode that failed in the scanline loop after the file, the session, the
\* ICC bytes and the pixel buffer had all been acquired, and has returned.
C1_Witness ==
  /\ op = "read" /\ pc = "returned" /\ ~ret
  /\ RaisedFatal /\ trace[FatalAt - 1] = "readOneScanline"
  /\ row >= 1
  /\ \A r \in {"file", "session", "rgb", "icc"} : acq[r] = 1

\* C2: on every path on which avifJPEGWrite returns, in both builds, the
\* session, the file handle if opened, the RGB/RGBA buffer and the fallback
\* RGB buffer are each released exactly once; the RGBA buffer freed early in
\* the alpha fallback is not released again at cleanup.
C2_WriteReleasesEachResourceOnce ==
  op = "write" =>
    /\ \A r \in Resources : rel[r] <= acq[r] /\ acq[r] <= 1
    /\ pc = "returned" => \A r \in Resources : rel[r] = acq[r]

\* A successful encode through the alpha fallback has returned: the RGBA
\* buffer was freed early and the fallback buffer at cleanup.
C2_Witness ==
  /\ op = "write" /\ pc = "returned" /\ ret
  /\ ~nativeAlpha /\ ~avif.alphaPremultiplied
  /\ acq["rgb"] = 1 /\ acq["rgbPremultiplied"] = 1 /\ acq["file"] = 1
  /\ avif.height > 0 /\ avif.width > 0

\* The RGBA buffer of the alpha fallback after in-place premultiplication.
PremultipliedRGBA ==
  avifRGBImagePremultiplyAlpha(
    avifImageYUVToRGB(avif, avifRGBImageAllocatePixels(WriteRequestedBuffer(avif, args))))
\* Row j (0-based) of an RGBA buffer with the alpha byte of every pixel dropped.
DropAlphaRow(buf, j) ==
  [k \in 1..(buf.width * 3) |->
     buf.pixels[j * buf.rowBytes + ((k - 1) \div 3) * 4 + ((k - 1) % 3) + 1]]
InAlphaFallback == op = "write" /\ ~nativeAlpha /\ ~avif.alphaPremultiplied

\* C3: in the alpha fallback (no native codec alpha, straight source alpha)
\* every row handed to the codec equals the same row of the premultiplied
\* RGBA buffer with the alpha bytes dropped.
C3_FallbackRowsArePremultipliedThenStripped ==
  InAlphaFallback =>
    \A k \in 1..Len(sent) : sent[k] = DropAlphaRow(PremultipliedRGBA, k - 1)

\* C4: after a fatal codec error in avifJPEGRead control is at the cleanup
\* point or has returned failure, no later pipeline step has run, and the
\* caller's Planar Image is as it was when the call began.
C4_FatalErrorLeavesNoPartialResult ==
  (op = "read" /\ RaisedFatal) =>
    /\ pc \in {"r_cleanup", "returned"}
    /\ ~ret
    /\ \A k \in (FatalAt + 1)..Len(trace) : trace[k] = "destroy"
    /\ avif = entry

\* C5: when the source cannot be opened, avifJPEGRead returns failure, the
\* Planar Image is unchanged, no session was created, no buffer allocated and
\* no file handle is held.
C5_OpenFailureTouchesNothing ==
  (op = "read" /\ ~file.exists) =>
    /\ pc \in {"r_fopen", "returned"}
    /\ ~ret
    /\ avif = entry
    /\ cinfo = NoSession /\ trace = <<>>
    /\ acq = NoneHeld /\ rel = NoneHeld
    /\ f = "NULL" /\ ~rgb.allocated /\ ~iccData.allocated

\* The decode of a path that cannot be opened has returned.
C5_Witness == op = "read" /\ pc = "returned" /\ ~file.exists /\ entry.width > 0

\* C6: when avifJPEGRead returns success the image has the width and height
\* the codec reported, the requested chroma format, the requested depth (8
\* when the request is 0), and alpha not premultiplied.
C6_SuccessfulReadSetsImageFields ==
  (op = "read" /\ pc = "returned" /\ ret) =>
    /\ avif.width = file.width /\ avif.width = cinfo.output_width
    /\ avif.height = file.height /\ avif.height = cinfo.output_height
    /\ avif.yuvFormat = args.requestedFormat
    /\ avif.depth = (IF args.requestedDepth = 0 THEN 8 ELSE args.requestedDepth)
    /\ ~avif.alphaPremultiplied

\* A successful decode, with depth 0 requested, into an image that had other
\* dimensions and premultiplied alpha before the call.
C6_Witness ==
  /\ op = "read" /\ pc = "returned" /\ ret
  /\ args.requestedDepth = 0
  /\ entry.alphaPremultiplied
  /\ entry.width # avif.width /\ entry.height # avif.height

\* C7: every call ends by returning to its caller (no failure ends it any
\* other way), a call in which a fatal error was raised does not return
\* success, and success is returned only after the codec's finish step.
C7_EveryFailureIsReturned ==
  /\ pc # "exited"
  /\ RaisedFatal => ~ret
  /\ (pc = "returned" /\ ret) =>
       \/ op = "read" /\ "finishDecompress" \in Range(trace)
       \/ op = "write" /\ "finishCompress" \in Range(trace)

\* C8: every row the scanline pump touches lies inside its buffer: in decode
\* the row copied is a row of the buffer and the copy fits in it; in encode
\* the bytes the codec reads for the scanline lie inside the buffer, and the
\* row the codec reads (width x bytes per pixel of the configured input
\* colour space) is the row the buffer holds (width x its channel count).
\* In particular, once the session is configured, the bytes per pixel of
\* its input colour space are those of the buffer's channel layout.
C8_PumpStaysInsideBuffer ==
  /\ (op = "write" /\ cinfo.in_color_space # "none") =>
       CodecBytesPerPixel(cinfo.in_color_space) = avifRGBImagePixelSize(PumpBuffer)
  /\ (pc = "r_scan" /\ cinfo.output_scanline < cinfo.output_height) =>
       /\ row < rgb.height
       /\ (row + 1) * rgb.rowBytes <= Len(rgb.pixels)
       /\ rgb.rowBytes <= row_stride
  /\ (pc = "w_scan" /\ cinfo.next_scanline < cinfo.image_height) =>
       /\ PumpBuffer.allocated
       /\ ReadInBounds(PumpBuffer, cinfo)
       /\ CodecRowBytes(cinfo) = PumpBuffer.width * avifRGBImagePixelSize(PumpBuffer)

\* C9: when a decode succeeds on the stream a successful encode produced,
\* the decoded width and height are those of the encoded image, a non-empty
\* profile of the encoded image comes back byte for byte, and an image
\* encoded without profile gives the decoded image none.
C9_RoundTripKeepsSizeAndProfile ==
  (op = "read" /\ pc = "returned" /\ ret /\ file.encoded.valid) =>
    /\ avif.width = file.encoded.width
    /\ avif.height = file.encoded.height
    /\ Len(file.encoded.icc) > 0 => avif.icc = file.encoded.icc
    /\ Len(file.encoded.icc) = 0 => avif.icc = entry.icc

\* An image with a profile spanning several markers was encoded and the
\* file decoded into a newly created image.
C9_Witness ==
  /\ op = "read" /\ pc = "returned" /\ ret /\ file.encoded.valid
  /\ Len(file.encoded.icc) > MAX_DATA_BYTES_IN_MARKER
  /\ entry = NoImage
  /\ file.encoded.width # file.encoded.height

\* C10: a second encode of the same image with the same quality and
\* upsampling hands the codec the same rows as the first, on every path,
\* the alpha fallback included: the rows are equal and every byte of them
\* is determined by the inputs.
C10_SameInputsSameRows ==
  ( /\ op = "write" /\ pc \in {"w_scan", "w_finish", "w_cleanup"}
    /\ lastWrite.valid
    /\ lastWrite.image = avif
    /\ lastWrite.jpegQuality = args.jpegQuality
    /\ lastWrite.chromaUpsampling = args.chromaUpsampling ) =>
    \A k \in 1..Len(sent) :
      /\ k <= Len(lastWrite.sent)
      /\ sent[k] = lastWrite.sent[k]
      /\ Determined(sent[k])

\* ------------------------------------------------------------ C11 .. C20
\* The number of entries of q equal to x.
Count(q, x) == Cardinality({k \in 1..Len(q) : q[k] = x})
\* The steps a call takes between its invocation and its return, but for
\* the finish step of the encoder, whose only guard is its place in the
\* call.
CallSteps ==
  \/ Read_fopen \/ Read_create \/ Read_header \/ Read_start \/ Read_icc
  \/ Read_setup \/ Read_scan \/ Read_convert \/ Read_finish \/ Read_cleanup
  \/ Write_create \/ Write_toRGB \/ Write_premultiply \/ Write_strip
  \/ Write_fopen \/ Write_config \/ Write_icc \/ Write_scan
  \/ Write_cleanup

\* C11: every invocation of avifJPEGRead and avifJPEGWrite returns: a call
\* that has not returned can always take its next step (it never stops short
\* of the return, whether it ends in completion, a fatal codec error or a
\* conversion rejection), and each scanline pump makes at most height codec
\* calls.
C11_EveryCallReturns ==
  /\ pc \notin {"idle", "returned", "w_finish"} => ENABLED CallSteps
  /\ op = "read" => Count(trace, "readOneScanline") <= file.height
  /\ op = "write" => Count(trace, "writeOneScanline") <= avif.height

\* C12: the buffer avifJPEGWrite requests of the conversion collaborator is
\* RGBA whenever the codec has native alpha support; without it, RGBA exactly
\* when the source alpha is not premultiplied and RGB otherwise; and it is
\* always requested premultiplied.
C12_RequestedLayout ==
  (op = "write" /\ acq["rgb"] = 1) =>
    /\ rgb.alphaPremultiplied
    /\ rgb.format = (IF nativeAlpha \/ ~avif.alphaPremultiplied
                       THEN AVIF_RGB_FORMAT_RGBA ELSE AVIF_RGB_FORMAT_RGB)

\* Row j (0-based) of an interleaved buffer.
BufferRow(buf, j) ==
  [k \in 1..buf.rowBytes |-> buf.pixels[j * buf.rowBytes + k]]

\* A jpeg_read_scanlines call that delivers no row. The library's interface
\* allows it: the call returns the number of rows it delivered, which is
\* less than the number asked for when the data source cannot supply the
\* data. The source of line 67 (jpeg_stdio_src) always supplies data or
\* raises a fatal error, so Spec has no such step; SpecZeroRowDelivery adds
\* it, to see what lines 94-99 make of it. The loop does not look at the
\* return value: it copies the codec's row buffer, which still holds the
\* last row delivered (nothing determined before the first), to row `row`
\* and increments row, while output_scanline stays.
MaxNoRowCalls == 1
CodecRowBuffer ==
  IF cinfo.output_scanline = 0
    THEN [x \in 1..row_stride |-> Indeterminate]
    ELSE DecodedRow(cinfo.output_scanline)
Read_scan_NoRow ==
  /\ pc = "r_scan"
  /\ cinfo.output_scanline < cinfo.output_height
  /\ Count(trace, "readNoScanline") < MaxNoRowCalls
  /\ rgb' = [rgb EXCEPT !.pixels =
               CopyRow(rgb.pixels, row, rgb.rowBytes, CodecRowBuffer)]
  /\ row' = row + 1
  /\ trace' = Append(trace, "readNoScanline")
  /\ UNCHANGED <<nativeAlpha, avif, file, pc, op, args, ret, f, cinfo,
                 rgbPremultiplied, iccData, row_stride, acq, rel, entry, sent,
                 lastWrite, again>>

\* Once row has passed the height of the buffer, a memcpy of line 97 has
\* written behind the block. The bytes of the block are as they were; what
\* lies behind it is damaged, and the process goes on or is stopped (by the
\* write itself, or by the allocator when the block is freed).
HeapOverrunAborts ==
  /\ op = "read"
  /\ pc \in {"r_scan", "r_convert", "r_finish", "r_cleanup"}
  /\ row > rgb.height
  /\ pc' = "crashed"
  /\ UNCHANGED <<nativeAlpha, avif, file, op, args, ret, f, cinfo, rgb,
                 rgbPremultiplied, iccData, row, row_stride, acq, rel, entry,
                 sent, trace, lastWrite, again>>

NextZeroRowDelivery == Next \/ Read_scan_NoRow \/ HeapOverrunAborts
SpecZeroRowDelivery == Init /\ [][NextZeroRowDelivery]_vars

FirstAt(q, x) ==
  CHOOSE k \in 1..Len(q) : q[k] = x /\ \A m \in 1..(k - 1) : q[m] # x
\* x occurs in q, and before any y.
Precedes(q, x, y) ==
  /\ x \in Range(q)
  /\ \A k \in 1..Len(q) : q[k] = y => FirstAt(q, x) < k

\* C14: avifJPEGWrite embeds the ICC profile exactly when the image carries a
\* non-empty one, at most once, and before the first scanline is written;
\* with no profile, or one of length zero, there is no embed call, no marker
\* in the output and no failure from the embed step.
C14_ProfileEmbeddedOnceBeforeScanlines ==
  op = "write" =>
    /\ Count(trace, "embedProfile") <= 1
    /\ "embedProfile" \in Range(trace) => Len(avif.icc) > 0
    /\ (Len(avif.icc) > 0
          /\ (pc \in {"w_scan", "w_finish"} \/ "writeOneScanline" \in Range(trace))) =>
         /\ Precedes(trace, "embedProfile", "writeOneScanline")
         /\ pc \in {"w_scan", "w_finish"} =>
              cinfo.markers = write_icc_profile(avif.icc)
         /\ ret => file.markers = write_icc_profile(avif.icc)
    /\ Len(avif.icc) = 0 =>
         /\ cinfo.markers = <<>>
         /\ f = "open" => file.markers = <<>>

\* An image with a profile has been encoded: the embed call was made and at
\* least one scanline followed it.
C14_Witness ==
  /\ op = "write" /\ pc = "returned" /\ ret
  /\ Len(avif.icc) > 0
  /\ "embedProfile" \in Range(trace)
  /\ Count(trace, "writeOneScanline") >= 1

\* C15 as stated: in avifJPEGRead the ICC extraction is attempted before the
\* codec's startDecompress step (hence before any scanline is read); a
\* profile that is present is copied into the image, and when there is none
\* the call goes on without error and leaves the profile field alone.
C15_ProfileExtractedBeforeStart ==
  op = "read" =>
    /\ "startDecompress" \in Range(trace) =>
         Precedes(trace, "extractProfile", "startDecompress")
    /\ "extractProfile" \in Range(trace) =>
         /\ read_icc_profile_found(file.markers) =>
              avif.icc = read_icc_profile_data(file.markers)
         /\ ~read_icc_profile_found(file.markers) => avif.icc = entry.icc
         /\ RaisedFatal => trace[FatalAt - 1] # "extractProfile"

\* C15 (amended): the ICC extraction is attempted once, after the codec's
\* startDecompress step and before any scanline is read; a profile that is
\* present is copied into the image, and when there is none the call goes on
\* without error and leaves the profile field alone.
C15_ProfileExtractedBeforeScanlines ==
  op = "read" =>
    /\ "readOneScanline" \in Range(trace) =>
         Precedes(trace, "extractProfile", "readOneScanline")
    /\ "extractProfile" \in Range(trace) =>
         /\ Count(trace, "extractProfile") = 1
         /\ Precedes(trace, "startDecompress", "extractProfile")
         /\ read_icc_profile_found(file.markers) =>
              avif.icc = read_icc_profile_data(file.markers)
         /\ ~read_icc_profile_found(file.markers) => avif.icc = entry.icc
         /\ RaisedFatal => trace[FatalAt - 1] # "extractProfile"

\* A decode of a file with a profile, into an image that had another one,
\* has read its scanlines and returned.
C15_Witness ==
  /\ op = "read" /\ pc = "returned"
  /\ read_icc_profile_found(file.markers)
  /\ "readOneScanline" \in Range(trace)
  /\ avif.icc # entry.icc
  /\ Len(entry.icc) > 0

\* avifJPEGRead is at cleanup or has returned because the conversion
\* collaborator rejected the buffer: the file was opened, no codec call
\* raised a fatal error and the finish step was not reached.
ConversionRejected ==
  /\ op = "read" /\ pc \in {"r_cleanup", "returned"}
  /\ trace # <<>> /\ ~RaisedFatal
  /\ "finishDecompress" \notin Range(trace)
\* What C16 says of a rejected conversion and of the path to the finish step.
RejectionAndFinishPath ==
  /\ ConversionRejected =>
       /\ ~ret
       /\ avif.planes = entry.planes
       /\ read_icc_profile_found(file.markers) =>
            avif.icc = read_icc_profile_data(file.markers)
       /\ pc = "returned" =>
            /\ trace[Len(trace)] = "destroy" /\ cinfo.state = "destroyed"
            /\ f = "NULL" /\ ~rgb.allocated /\ ~iccData.allocated
            /\ \A r \in Resources : rel[r] = acq[r]
  /\ (op = "read" /\ "finishDecompress" \in Range(trace)) =>
       /\ cinfo.output_scanline = cinfo.output_height
       /\ Count(trace, "readOneScanline") = cinfo.output_height
       /\ rgb.allocated => avif.planes = avifImageRGBToYUV(avif, rgb).planes

\* C16 as stated: when the RGB-to-YUV conversion rejects the buffer the call
\* returns failure, finishDecompress is never called, cleanup is reached
\* (session destroyed, file closed, buffers released) and the profile
\* already copied stays; finishDecompress is called only when all rows were
\* read and the conversion succeeded, and is followed by a success return.
C16_FinishThenSuccess ==
  /\ RejectionAndFinishPath
  /\ (op = "read" /\ pc = "returned" /\ "finishDecompress" \in Range(trace)) => ret

\* C16 (amended): as above, except that the call to finishDecompress is
\* followed by a success return when it completes and by a failure return
\* through cleanup when it raises a fatal error.
C16_FinishCompletedThenSuccess ==
  /\ RejectionAndFinishPath
  /\ (op = "read" /\ pc = "returned" /\ "finishDecompress" \in Range(trace)) =>
       /\ ret <=> ~RaisedFatal
       /\ RaisedFatal => trace[FatalAt - 1] = "finishDecompress"

\* A decode whose conversion was rejected has returned; the file carried a
\* profile, which replaced the one the image had.
C16_Witness ==
  /\ ConversionRejected /\ pc = "returned"
  /\ row >= 1
  /\ read_icc_profile_found(file.markers)
  /\ Len(entry.icc) > 0 /\ avif.icc # entry.icc

\* The compression steps of the codec: everything but creating and
\* destroying the session.
CompressionSteps ==
  {"startCompress", "embedProfile", "writeOneScanline", "finishCompress", "fatal"}

\* C17: an avifJPEGWrite that fails (it is at cleanup, or has returned,
\* without success) has written nothing: the destination was not opened,
\* whether the conversion or the premultiplication failed or the open
\* itself; no row was handed to the codec and no compression step (start,
\* profile embed, scanline write, finish) was made; and the call returns
\* failure.
C17_FailedWriteTouchesNoOutput ==
  (op = "write" /\ pc \in {"w_cleanup", "returned"} /\ ~ret) =>
    /\ f = "NULL" /\ acq["file"] = 0
    /\ Range(trace) \cap CompressionSteps = {}
    /\ sent = <<>>
    /\ cinfo.state \in {"created", "destroyed"}
    /\ cinfo.next_scanline = 0

\* A write whose premultiplication failed has returned: the RGBA buffer had
\* been filled, the fallback buffer never allocated.
C17_Witness ==
  /\ op = "write" /\ pc = "returned" /\ ~ret
  /\ InAlphaFallback /\ HasPlanes(avif)
  /\ acq["rgb"] = 1 /\ acq["rgbPremultiplied"] = 0
  /\ avif.width > 0 /\ avif.height > 0

\* The content the finalized buffer of the encode pump is to hold: in the
\* alpha fallback the premultiplied RGBA buffer with the alpha bytes dropped,
\* otherwise what the conversion collaborator put in the requested buffer.
FinalizedPixels ==
  IF InAlphaFallback
    THEN [k \in 1..(avif.width * 3 * avif.height) |->
            DropAlphaRow(PremultipliedRGBA, (k - 1) \div (avif.width * 3))
              [((k - 1) % (avif.width * 3)) + 1]]
    ELSE avifImageYUVToRGB(avif,
           avifRGBImageAllocatePixels(WriteRequestedBuffer(avif, args))).pixels

\* C18: in the encode pump every codec call writes one row, the k-th call
\* handing over row k of the finalized buffer (the fallback RGB buffer when
\* the codec has no native alpha and the source alpha is straight, the
\* requested buffer otherwise); at every call that buffer is allocated, fully
\* written and not released; exactly height rows are written before
\* finishCompress, which is called once, after the last row.
C18_EncodePumpRowsInOrder ==
  (op = "write" /\ pc \in {"w_scan", "w_finish", "w_cleanup"} /\ f = "open") =>
    /\ PumpBuffer.allocated
    /\ PumpBuffer.pixels = FinalizedPixels
    /\ Len(sent) = cinfo.next_scanline
    /\ Len(sent) = Count(trace, "writeOneScanline")
    /\ Len(sent) <= avif.height
    /\ \A k \in 1..Len(sent) : sent[k] = BufferRow(PumpBuffer, k - 1)
    /\ pc # "w_scan" => Len(sent) = avif.height
    /\ Count(trace, "finishCompress") <= 1
    /\ "finishCompress" \in Range(trace) =>
         /\ trace[Len(trace)] = "finishCompress"
         /\ Len(sent) = avif.height

\* Colour sample c (0 = R, 1 = G, 2 = B) of pixel (i, j) of the image,
\* multiplied by the pixel's alpha once relative to straight alpha: the
\* colour of a premultiplied image as it is, the colour of a straight image
\* scaled by its alpha.
OnceColour(i, j, c) ==
  LET px == avif.planes[j * avif.width + i + 1]
      s == CASE c = 0 -> YUVToR(px[1], px[2], px[3])
             [] c = 1 -> YUVToG(px[1], px[2], px[3])
             [] OTHER -> YUVToB(px[1], px[2], px[3])
  IN IF avif.alphaPremultiplied THEN s ELSE PremultiplySample(s, px[4])

\* C19: on every path of avifJPEGWrite the colour bytes handed to the codec
\* have been multiplied by alpha exactly once relative to the straight-alpha
\* colour; in the alpha fallback the buffer the conversion collaborator
\* returned premultiplied has not been premultiplied again when the in-place
\* step is done.
C19_ColoursPremultipliedOnce ==
  op = "write" =>
    /\ pc = "w_strip" =>
         \A i \in 0..(rgb.width - 1), j \in 0..(rgb.height - 1), c \in 0..2 :
           rgb.pixels[j * rgb.rowBytes + i * 4 + c + 1] = OnceColour(i, j, c)
    /\ \A k \in 1..Len(sent), i \in 0..(avif.width - 1), c \in 0..2 :
         sent[k][i * CodecBytesPerPixel(cinfo.in_color_space) + c + 1]
           = OnceColour(i, k - 1, c)

\* The calls made on the session, in order: the trace without the marks of
\* fatal errors and without the profile extraction, which reads what the
\* session has saved.
SessionCalls ==
  SelectSeq(trace, LAMBDA x : x \notin {"fatal", "extractProfile"})
\* The place of a decode call in the session's protocol.
DecodeRank(x) ==
  CASE x = "create" -> 1
    [] x = "readHeader" -> 2
    [] x = "startDecompress" -> 3
    [] x = "readOneScanline" -> 4
    [] x = "finishDecompress" -> 5
    [] x = "destroy" -> 6
    [] OTHER -> 0
\* q follows create, readHeader, startDecompress, readOneScanline*,
\* finishDecompress, destroy, where destroy may come early.
InDecodeOrder(q) ==
  /\ \A k \in 1..Len(q) : DecodeRank(q[k]) > 0
  /\ \A k \in 2..Len(q) :
       LET a == DecodeRank(q[k - 1])
           b == DecodeRank(q[k])
       IN \/ b = 6 /\ a < 6
          \/ b = a + 1 /\ b < 6
          \/ a = 4 /\ b = 4
          \/ a = 3 /\ b = 5
\* The call has created a session: create was called and completed.
SessionCreated ==
  /\ Len(trace) >= 1 /\ trace[1] = "create"
  /\ Len(trace) >= 2 => trace[2] # "fatal"

\* C20: no codec call is made on a session that has not been created or has
\* been destroyed; on every path that created a session, destroying it is
\* the last codec call and happens exactly once; and the decode calls come
\* in the order create, readHeader, startDecompress, readOneScanline*,
\* finishDecompress (on the way to success only), destroy.
C20_SessionLifecycle ==
  /\ trace # <<>> => trace[1] = "create" /\ Count(trace, "create") = 1
  /\ \A k \in 1..Len(trace) : trace[k] = "destroy" => k = Len(trace)
  /\ (SessionCreated /\ pc \in {"returned", "exited"}) =>
       trace[Len(trace)] = "destroy"
  /\ op = "read" =>
       /\ InDecodeOrder(SessionCalls)
       /\ "finishDecompress" \in Range(trace) =>
            \/ ret
            \/ RaisedFatal /\ trace[FatalAt - 1] = "finishDecompress"

\* A decode of a picture of two rows has returned success: every call of
\* the protocol was made, each scanline call once.
C20_Witness ==
  /\ op = "read" /\ pc = "returned" /\ ret
  /\ SessionCalls = <<"create", "readHeader", "startDecompress",
                      "readOneScanline", "readOneScanline",
                      "finishDecompress", "destroy">>
====
